---- MODULE Spec2Model ----
(***************************************************************************)
(* The todo service of src/app.py: one table of Todo rows (SQLite through  *)
(* Flask-SQLAlchemy) and the request handlers that read and write it.      *)
(* Each handler runs to completion and leaves its HTTP response in resp;   *)
(* the response is returned before the next request is taken.              *)
(***************************************************************************)
EXTENDS Integers, Sequences, FiniteSets, TLC

VARIABLES
    todos,      \* the todo table: id -> row
    now,        \* the server clock, as last read (datetime.utcnow)
    removed,    \* history: ids whose row was deleted (delete, bulk delete)
    resp        \* the response of the request being answered, or Idle

vars == <<todos, now, removed, resp>>

(***************************************************************************)
(* Bounds of the model.                                                    *)
(***************************************************************************)
\* Largest id an insert may assign (at most MaxId rows).
MaxId == 2
\* Largest clock value.
MaxClock == 1
\* Largest number of keys, beside title, in a create body, and of keys in an
\* update body, of the service specification.
MaxBodyKeys == 1
\* Largest number of keys in a body of the update specification.
MaxUpdateKeys == 2
\* Rows of the table of the bulk specification.
MaxBulkId == 2
\* Rows of the table of the sort specification.
MaxSortId == 3

(***************************************************************************)
(* Values. A nullable column or a JSON value is Null or Val(v); a key of a *)
(* JSON body is Absent or Given(value).                                    *)
(***************************************************************************)
Null == <<>>
Val(v) == <<v>>
Absent == <<>>
Given(v) == <<v>>

Has(data, key) == data[key] # Absent
\* data.get(key, default)
Get(data, key, default) == IF Has(data, key) THEN data[key][1] ELSE default

Max(S) == CHOOSE x \in S : \A y \in S : y <= x

\* Date strings: the empty string, an ISO-8601 date-time of a clock value with
\* a zone suffix ("", "Z" or "+00:00"), or any other text.
EmptyText == [form |-> "empty", stamp |-> 0, zone |-> ""]
IsoText(t, z) == [form |-> "iso", stamp |-> t, zone |-> z]
OtherText == [form |-> "other", stamp |-> 0, zone |-> ""]

\* Python truth of a JSON value that is null or a string.
Truthy(v) == v # Null /\ v[1].form # "empty"

\* s.replace('Z', '+00:00')
ReplaceZ(s) == IF s.zone = "Z" THEN [s EXCEPT !.zone = "+00:00"] ELSE s

\* datetime.fromisoformat raises ValueError on anything but an ISO date-time;
\* the caller never hands it a 'Z' suffix.
IsIsoFormat(s) == s.form = "iso" /\ s.zone \in {"", "+00:00"}
FromIsoFormat(s) == [stamp |-> s.stamp, aware |-> s.zone # ""]

\* A DateTime column stores the wall-clock fields of a datetime and drops its
\* tzinfo; a row read back is naive.
Stored(dt) == dt.stamp

\* datetime.isoformat() of a naive datetime.
IsoFormat(t) == IsoText(t, "")

\* The clock values a later read of the clock may return.
Reads(t) == t..MaxClock

(***************************************************************************)
(* The Todo model.                                                         *)
(***************************************************************************)
\* 'is_overdue': self.due_date and self.due_date < datetime.utcnow() and not self.completed
\* (Python's and/not: None when due_date is None).
IsOverdue(todo, t) ==
    IF todo.due_date = Null THEN Null
    ELSE IF ~(todo.due_date[1] < t) THEN Val(FALSE)
    ELSE Val(todo.completed # Val(TRUE))

ToDict(todo, t) ==
    [id |-> todo.id,
     title |-> todo.title,
     description |-> todo.description,
     completed |-> todo.completed,
     priority |-> todo.priority,
     category |-> todo.category,
     due_date |-> IF todo.due_date # Null THEN Val(IsoFormat(todo.due_date[1])) ELSE Null,
     created_at |-> IsoFormat(todo.created_at),
     updated_at |-> IsoFormat(todo.updated_at),
     is_overdue |-> IsOverdue(todo, t)]

\* The id of the next inserted row: an INTEGER PRIMARY KEY of SQLite without
\* AUTOINCREMENT is one more than the largest id in the table.
NextId == IF DOMAIN todos = {} THEN 1 ELSE Max(DOMAIN todos) + 1

\* title is NOT NULL: the commit raises IntegrityError.
IntegrityOk(todo) == todo.title # Null

Idle == [op |-> "idle"]

Failure(op, req, status, error) ==
    [op |-> op, req |-> req, status |-> status, error |-> error]

Without(f, S) == [x \in DOMAIN f \ S |-> f[x]]

(***************************************************************************)
(* POST /api/todos                                                         *)
(***************************************************************************)
NewTodo(data, id, t1, t2) ==
    [id |-> id,
     title |-> data.title[1],
     description |-> Get(data, "description", Val("")),
     completed |-> Val(FALSE),
     priority |-> Get(data, "priority", Val("medium")),
     category |-> Get(data, "category", Val("general")),
     due_date |-> IF Truthy(Get(data, "due_date", Null))
                  THEN Val(Stored(FromIsoFormat(ReplaceZ(data.due_date[1][1]))))
                  ELSE Null,
     created_at |-> t1,
     updated_at |-> t2]

CreateStatus(data) ==
    IF Truthy(Get(data, "due_date", Null)) /\ ~IsIsoFormat(ReplaceZ(data.due_date[1][1]))
    THEN "ValueError"
    ELSE IF ~Has(data, "title") THEN "KeyError"
    ELSE IF data.title[1] = Null THEN "IntegrityError"
    ELSE "ok"

CreateTodo(data, maxId) ==
    /\ resp = Idle
    /\ IF CreateStatus(data) # "ok"
       THEN /\ resp' = Failure("create", data, 500, CreateStatus(data))
            /\ UNCHANGED <<todos, now>>
       ELSE /\ NextId <= maxId
            /\ \E t1 \in Reads(now) : \E t2 \in Reads(t1) : \E t3 \in Reads(t2) :
                 LET todo == NewTodo(data, NextId, t1, t2) IN
                 /\ todos' = (NextId :> todo) @@ todos
                 /\ now' = t3
                 /\ resp' = [op |-> "create", req |-> data, status |-> 201,
                             body |-> ToDict(todo, t3)]

(***************************************************************************)
(* The clock, and the return of a response.                                *)
(***************************************************************************)
Tick ==
    /\ resp = Idle
    /\ now < MaxClock
    /\ now' = now + 1
    /\ UNCHANGED <<todos, resp>>

Reply ==
    /\ resp # Idle
    /\ resp' = Idle
    /\ UNCHANGED <<todos, now>>

(***************************************************************************)
(* PUT /api/todos/<id>                                                     *)
(***************************************************************************)
\* Mutant of UpdatedDueDate: every due_date that is not truthy clears the column.
UpdatedDueDateClearsOnFalsy(todo, data) ==
    IF Truthy(Get(data, "due_date", Null))
    THEN Val(Stored(FromIsoFormat(ReplaceZ(data.due_date[1][1]))))
    ELSE IF Has(data, "due_date") THEN Null
    ELSE todo.due_date

\* Lines 109-112: a truthy due_date is parsed, a null one clears the column,
\* anything else (absent, empty string) leaves it.
UpdatedDueDate(todo, data) ==
    IF Truthy(Get(data, "due_date", Null))
    THEN Val(Stored(FromIsoFormat(ReplaceZ(data.due_date[1][1]))))
    ELSE IF Has(data, "due_date") /\ data.due_date[1] = Null THEN Null
    ELSE todo.due_date

UpdatedTodo(todo, data, t) ==
    [id |-> todo.id,
     title |-> Get(data, "title", todo.title),
     description |-> Get(data, "description", todo.description),
     completed |-> Get(data, "completed", todo.completed),
     priority |-> Get(data, "priority", todo.priority),
     category |-> Get(data, "category", todo.category),
     due_date |-> UpdatedDueDate(todo, data),
     created_at |-> todo.created_at,
     updated_at |-> t]

UpdateStatus(todo, data) ==
    IF Truthy(Get(data, "due_date", Null)) /\ ~IsIsoFormat(ReplaceZ(data.due_date[1][1]))
    THEN "ValueError"
    ELSE IF ~IntegrityOk(UpdatedTodo(todo, data, now)) THEN "IntegrityError"
    ELSE "ok"

UpdateTodo(id, data) ==
    /\ resp = Idle
    /\ LET req == [id |-> id, data |-> data] IN
       IF id \notin DOMAIN todos
       THEN /\ resp' = Failure("update", req, 404, "NotFound")
            /\ UNCHANGED <<todos, now>>
       ELSE IF UpdateStatus(todos[id], data) # "ok"
       THEN /\ resp' = Failure("update", req, 500, UpdateStatus(todos[id], data))
            /\ UNCHANGED <<todos, now>>
       ELSE \E t1 \in Reads(now) : \E t2 \in Reads(t1) :
              LET todo == UpdatedTodo(todos[id], data, t1) IN
              /\ todos' = [todos EXCEPT ![id] = todo]
              /\ now' = t2
              /\ resp' = [op |-> "update", req |-> req, status |-> 200,
                          body |-> ToDict(todo, t2)]
  
(***************************************************************************)
(* DELETE /api/todos/<id>                                                  *)
(***************************************************************************)
DeleteTodo(id) ==
    /\ resp = Idle
    /\ IF id \notin DOMAIN todos
       THEN /\ resp' = Failure("delete", id, 404, "NotFound")
            /\ UNCHANGED <<todos, now>>
       ELSE /\ todos' = Without(todos, {id})
            /\ resp' = [op |-> "delete", req |-> id, status |-> 204, body |-> ""]
            /\ UNCHANGED now

(***************************************************************************)
(* GET /api/stats                                                          *)
(***************************************************************************)
\* The SQL predicates of the queries: a comparison with NULL is not true.
IsCompleted(todo) == todo.completed = Val(TRUE)
IsPending(todo) == todo.completed = Val(FALSE)
OverdueAt(todo, t) ==
    todo.due_date # Null /\ todo.due_date[1] < t /\ todo.completed = Val(FALSE)

Count(P(_)) == Cardinality({id \in DOMAIN todos : P(todos[id])})

Stats(t) ==
    LET total == Cardinality(DOMAIN todos)
        completed == Count(IsCompleted)
        overdueNow(todo) == OverdueAt(todo, t)
        cats == {todos[id].category : id \in DOMAIN todos}
    IN [total |-> total,
        completed |-> completed,
        pending |-> total - completed,
        overdue |-> Count(overdueNow),
        categories |->
            [c \in cats |-> Cardinality({id \in DOMAIN todos : todos[id].category = c})]]

GetStats ==
    /\ resp = Idle
    /\ \E t \in Reads(now) :
         /\ now' = t
         /\ resp' = [op |-> "stats", req |-> "", status |-> 200, body |-> Stats(t)]
    /\ UNCHANGED todos

(***************************************************************************)
(* GET /api/todos                                                          *)
(***************************************************************************)
\* The sequences that list every element of S once.
Perms(S) ==
    {s \in [1..Cardinality(S) -> S] : \A i, j \in DOMAIN s : s[i] = s[j] => i = j}

NonDecreasing(s) == \A i, j \in DOMAIN s : i <= j => s[i] <= s[j]

\* Lines 53-58: the filter; any other value of filter selects every row.
Matches(todo, filter, t) ==
    CASE filter = "completed" -> IsCompleted(todo)
      [] filter = "pending" -> IsPending(todo)
      [] filter = "overdue" -> OverdueAt(todo, t)
      [] OTHER -> TRUE

\* Lines 60-61.
InCategory(todo, category) == category = "all" \/ todo.category = Val(category)

Selected(args, t) ==
    {id \in DOMAIN todos :
        Matches(todos[id], args.filter, t) /\ InCategory(todos[id], args.category)}

\* priority_order.get(x.priority, 4)
PriorityOrder(priority) ==
    CASE priority = Val("high") -> 1
      [] priority = Val("medium") -> 2
      [] priority = Val("low") -> 3
      [] OTHER -> 4

Rank(id) == PriorityOrder(todos[id].priority)

\* Mutant of InsertByRank: an element goes before the elements of equal key.
InsertBeforeEqualRank(sorted, id) ==
    LET k == Cardinality({i \in DOMAIN sorted : Rank(sorted[i]) < Rank(id)})
    IN SubSeq(sorted, 1, k) \o <<id>> \o SubSeq(sorted, k + 1, Len(sorted))

\* list.sort(key=...) is stable: an element goes behind the elements of the
\* sorted prefix whose key is not larger.
InsertByRank(sorted, id) ==
    LET k == Cardinality({i \in DOMAIN sorted : Rank(sorted[i]) <= Rank(id)})
    IN SubSeq(sorted, 1, k) \o <<id>> \o SubSeq(sorted, k + 1, Len(sorted))

RECURSIVE SortByPriority(_)
SortByPriority(ids) ==
    IF ids = <<>> THEN <<>>
    ELSE InsertByRank(SortByPriority(SubSeq(ids, 1, Len(ids) - 1)), ids[Len(ids)])

\* ORDER BY due_date ASC NULLS LAST; rows with equal keys come in any order.
DueDateBefore(a, b) == IF b = Null THEN TRUE ELSE a # Null /\ a[1] <= b[1]

DueDateOrdered(ids) ==
    \A i, j \in DOMAIN ids : i < j =>
        DueDateBefore(todos[ids[i]].due_date, todos[ids[j]].due_date)

\* ORDER BY created_at DESC.
CreatedAtOrdered(ids) ==
    \A i, j \in DOMAIN ids : i < j =>
        todos[ids[i]].created_at >= todos[ids[j]].created_at

\* Lines 64-73: the rows as query.all() returns them (fetched) and as the
\* handler lists them. A query without ORDER BY returns the rows in an order
\* the store chooses.
Listing(args, fetched) ==
    IF args.sort = "priority" THEN SortByPriority(fetched) ELSE fetched

Fetchable(args, fetched) ==
    CASE args.sort = "priority" -> TRUE
      [] args.sort = "due_date" -> DueDateOrdered(fetched)
      [] OTHER -> CreatedAtOrdered(fetched)

GetTodos(args) ==
    /\ resp = Idle
    /\ \E t1 \in (IF args.filter = "overdue" THEN Reads(now) ELSE {now}) :
       \E fetched \in Perms(Selected(args, t1)) :
       \E stamps \in [DOMAIN fetched -> Reads(t1)] :
         /\ Fetchable(args, fetched)
         /\ NonDecreasing(stamps)
         /\ LET listed == Listing(args, fetched) IN
            /\ now' = IF stamps = <<>> THEN t1 ELSE stamps[Len(stamps)]
            /\ resp' = [op |-> "list", req |-> args, status |-> 200,
                        at |-> t1, fetched |-> fetched,
                        body |-> [i \in DOMAIN listed |->
                                    ToDict(todos[listed[i]], stamps[i])]]
    /\ UNCHANGED todos

(***************************************************************************)
(* POST /api/todos/bulk                                                    *)
(***************************************************************************)
\* Mutant of BulkRows: the query is not narrowed to todo_ids.
BulkRowsUnfiltered(data) == DOMAIN todos

\* Line 151: the rows whose id is in todo_ids.
BulkRows(data) == Get(data, "todo_ids", {}) \cap DOMAIN todos

\* Lines 153-162: the row as the action leaves it in the session.
BulkChanged(todo, data) ==
    LET action == Get(data, "action", Null) IN
    CASE action = Val("complete") -> [todo EXCEPT !.completed = Val(TRUE)]
      [] action = Val("set_priority") ->
            [todo EXCEPT !.priority = Get(data, "priority", Val("medium"))]
      [] OTHER -> todo

\* The commit writes a row only when one of its attributes has a new value;
\* onupdate=datetime.utcnow sets updated_at of the rows it writes.
Flushed(todo, data, t) ==
    IF BulkChanged(todo, data) # todo
    THEN [BulkChanged(todo, data) EXCEPT !.updated_at = t]
    ELSE todo

BulkAction(data) ==
    /\ resp = Idle
    /\ resp' = [op |-> "bulk", req |-> data, status |-> 200,
                body |-> [success |-> TRUE]]
    /\ IF Get(data, "action", Null) = Val("delete")
       THEN /\ todos' = Without(todos, BulkRows(data))
            /\ UNCHANGED now
       ELSE \E stamp \in [BulkRows(data) -> Reads(now)] :
              LET written == {id \in BulkRows(data) : BulkChanged(todos[id], data) # todos[id]}
              IN
              /\ \A i, j \in written : i <= j => stamp[i] <= stamp[j]
              /\ \A i \in BulkRows(data) \ written : stamp[i] = now
              /\ todos' = [id \in DOMAIN todos |->
                             IF id \in BulkRows(data)
                             THEN Flushed(todos[id], data, stamp[id])
                             ELSE todos[id]]
              /\ now' = Max({now} \cup {stamp[i] : i \in written})
  
(***************************************************************************)
(* The requests the specifications send.                                   *)
(***************************************************************************)
Keys == {"title", "description", "completed", "priority", "category", "due_date"}

NumKeys(data, keys) == Cardinality({k \in keys : Has(data, k)})

\* The JSON bodies whose keys take their values from vocab.
JsonBodies(vocab) ==
    [title : vocab.title \cup {Absent},
     description : vocab.description \cup {Absent},
     completed : vocab.completed \cup {Absent},
     priority : vocab.priority \cup {Absent},
     category : vocab.category \cup {Absent},
     due_date : vocab.due_date \cup {Absent}]

ServiceVocab ==
    [title |-> {Given(Val("A"))},
     description |-> {},
     completed |-> {Given(Val(TRUE)), Given(Val(FALSE)), Given(Null)},
     priority |-> {Given(Val("low"))},
     category |-> {Given(Val("work"))},
     due_date |-> {Given(Val(IsoText(0, ""))), Given(Null), Given(Val(OtherText))}]

CreateBodies ==
    {d \in JsonBodies(ServiceVocab) :
        d.completed = Absent /\ NumKeys(d, Keys \ {"title"}) <= MaxBodyKeys}

UpdateBodies ==
    {d \in JsonBodies(ServiceVocab) : d.title = Absent /\ NumKeys(d, Keys) <= MaxBodyKeys}

BulkBodies(maxId) ==
    {d \in [action : {Given(Val("complete")), Given(Val("delete")),
                      Given(Val("set_priority")), Absent},
            todo_ids : {Given(S) : S \in SUBSET (1..maxId + 1)},
            priority : {Given(Val("low")), Absent}] :
        d.priority # Absent => d.action = Given(Val("set_priority"))}

ListArgs ==
    [filter : {"all", "completed", "pending", "overdue"},
     category : {"all", "work"},
     sort : {"created_at", "due_date", "priority"}]

(***************************************************************************)
(* The service: every handler, on a table that starts empty.               *)
(***************************************************************************)
Init ==
    /\ todos = <<>>
    /\ now = 0
    /\ removed = {}
    /\ resp = Idle

\* The history of deleted ids, which no handler reads.
Removal == removed' = removed \cup (DOMAIN todos \ DOMAIN todos')

Next ==
    \/ \E data \in CreateBodies : CreateTodo(data, MaxId) /\ Removal
    \/ \E id \in 1..MaxId + 1 : \E data \in UpdateBodies : UpdateTodo(id, data) /\ Removal
    \/ \E id \in 1..MaxId + 1 : DeleteTodo(id) /\ Removal
    \/ \E data \in BulkBodies(MaxId) : BulkAction(data) /\ Removal
    \/ \E args \in ListArgs : GetTodos(args) /\ Removal
    \/ GetStats /\ Removal
    \/ Tick /\ Removal
    \/ Reply /\ Removal

Spec == Init /\ [][Next]_vars

(***************************************************************************)
(* The update handler on a table of one row, with bodies of every key.     *)
(***************************************************************************)
UpdateVocab ==
    [title |-> {Given(Val("B")), Given(Null)},
     description |-> {Given(Val("d"))},
     completed |-> {Given(Val(TRUE)), Given(Val(FALSE)), Given(Null)},
     priority |-> {Given(Val("low"))},
     category |-> {Given(Val("work"))},
     due_date |-> {Given(Val(IsoText(0, ""))), Given(Val(IsoText(1, "Z"))), Given(Null),
                   Given(Val(EmptyText)), Given(Val(OtherText))}]

TitleOnly ==
    [title |-> Given(Val("A")), description |-> Absent, completed |-> Absent,
     priority |-> Absent, category |-> Absent, due_date |-> Absent]

\* The one id of the table of the update specification.
UpdateIds == {1}

PartialBodies ==
    {d \in JsonBodies(UpdateVocab) : NumKeys(d, Keys) <= MaxUpdateKeys}

NextUpdate ==
    \/ \E id \in UpdateIds : CreateTodo(TitleOnly, id) /\ Removal
    \/ \E id \in UpdateIds \cup {2} : \E data \in PartialBodies :
          UpdateTodo(id, data) /\ Removal
    \/ Tick /\ Removal
    \/ Reply /\ Removal

SpecUpdate == Init /\ [][NextUpdate]_vars

(***************************************************************************)
(* The bulk handler on rows that differ in completed and priority; the     *)
(* history of deleted ids is not recorded.                                 *)
(***************************************************************************)
CompletedBodies == {d \in UpdateBodies : NumKeys(d, Keys \ {"completed"}) = 0}

NextBulk ==
    \/ CreateTodo(TitleOnly, MaxBulkId) /\ UNCHANGED removed
    \/ \E id \in 1..MaxBulkId : \E data \in CompletedBodies :
          UpdateTodo(id, data) /\ UNCHANGED removed
    \/ \E data \in BulkBodies(MaxBulkId) : BulkAction(data) /\ UNCHANGED removed
    \/ Tick /\ UNCHANGED removed
    \/ Reply /\ UNCHANGED removed

SpecBulk == Init /\ [][NextBulk]_vars

(***************************************************************************)
(* The priority sort on tables of every mix of priorities.                 *)
(***************************************************************************)
Priorities == {Val("high"), Val("medium"), Val("low"), Val("urgent"), Null}

SortRow(id, priority) ==
    [id |-> id, title |-> Val("A"), description |-> Val(""), completed |-> Val(FALSE),
     priority |-> priority, category |-> Val("general"), due_date |-> Null,
     created_at |-> 0, updated_at |-> 0]

InitSort ==
    /\ \E n \in 0..MaxSortId : \E p \in [1..n -> Priorities] :
         todos = [id \in 1..n |-> SortRow(id, p[id])]
    /\ now = 0
    /\ removed = {}
    /\ resp = Idle

SortArgs == [filter : {"all", "completed"}, category : {"all"}, sort : {"priority"}]

NextSort ==
    \/ \E args \in SortArgs : GetTodos(args) /\ Removal
    \/ Reply /\ Removal

SpecSort == InitSort /\ [][NextSort]_vars

(***************************************************************************)
(* The claims. A handler's step is a step from Idle to its response.       *)
(***************************************************************************)
Handled(op) == resp = Idle /\ resp'.op = op

\* C2: in every reachable state, for each category parameter, the rows that
\* filter=pending selects and the rows that filter=completed selects are
\* disjoint and together are the rows that filter=all selects.
C2_PendingCompletedPartition ==
    \A category \in {"all", "general", "work"} :
        LET sel(filter) ==
                Selected([filter |-> filter, category |-> category, sort |-> "created_at"], now)
        IN /\ sel("pending") \cap sel("completed") = {}
           /\ sel("pending") \cup sel("completed") = sel("all")

\* C3: the id of a deleted row stays invalid: no row of the table has it
\* again, and no create returns it.
C3_RemovedIdStaysInvalid ==
    /\ removed \cap DOMAIN todos = {}
    /\ resp.op = "create" /\ resp.status = 201 => resp.body.id \notin removed

\* C5: after an update of an existing row, and for every existing row a bulk
\* complete or bulk set_priority is applied to, updated_at is a clock value
\* read during that operation, whether or not a field changed.
C5_UpdatedAtRefreshed ==
    [][LET refreshed(id) ==
               now <= todos'[id].updated_at /\ todos'[id].updated_at <= now'
           mutates(data) ==
               Get(data, "action", Null) \in {Val("complete"), Val("set_priority")}
       IN /\ (Handled("update") /\ resp'.status = 200) => refreshed(resp'.req.id)
          /\ (Handled("bulk") /\ mutates(resp'.req)) =>
                \A id \in Get(resp'.req, "todo_ids", {}) \cap DOMAIN todos : refreshed(id)
      ]_vars

\* C6: a create whose body has no title answers 400, not 500, and leaves the
\* table as it was.
C6_MissingTitleIsValidationError ==
    [][Handled("create") /\ ~Has(resp'.req, "title") =>
            resp'.status = 400 /\ todos' = todos /\ NextId' = NextId
      ]_vars

\* C7: at every evaluation time, filter=overdue selects exactly the rows whose
\* representation has is_overdue true, which are the rows with a due_date
\* before that time and completed false; a row without due_date is never among
\* them.
C7_OverdueFilterIsOverdue ==
    \A t \in 0..MaxClock : \A id \in DOMAIN todos :
        LET todo == todos[id]
            listed == id \in Selected([filter |-> "overdue", category |-> "all",
                                       sort |-> "created_at"], t)
            flagged == ToDict(todo, t).is_overdue = Val(TRUE)
        IN /\ listed <=> flagged
           /\ flagged <=> (todo.due_date # Null /\ todo.due_date[1] < t
                           /\ todo.completed = Val(FALSE))
           /\ todo.due_date = Null => ~listed /\ ~flagged

\* C9: the stats response counts the rows, the completed rows, the rest as
\* pending, the rows that are overdue when it is computed (due_date in the
\* past and not completed), and the rows of each category present.
C9_StatsCounts ==
    resp.op = "stats" =>
        LET body == resp.body
            ids == DOMAIN todos
            cats == {todos[id].category : id \in ids}
        IN /\ body.total = Cardinality(ids)
           /\ body.completed = Cardinality({id \in ids : todos[id].completed = Val(TRUE)})
           /\ body.pending = body.total - body.completed
           /\ body.overdue =
                Cardinality({id \in ids : /\ todos[id].due_date # Null
                                          /\ todos[id].due_date[1] < now
                                          /\ todos[id].completed # Val(TRUE)})
           /\ DOMAIN body.categories = cats
           /\ \A c \in cats :
                body.categories[c] = Cardinality({id \in ids : todos[id].category = c})
           /\ ids = {} => body = [total |-> 0, completed |-> 0, pending |-> 0,
                                  overdue |-> 0, categories |-> <<>>]

\* C10: the row a create returns has created_at equal to updated_at; no step
\* changes the created_at of a row, and updated_at is never before created_at.
C10_CreatedAtIsFirstUpdatedAt ==
    [][/\ Handled("create") /\ resp'.status = 201 =>
            resp'.body.created_at = resp'.body.updated_at
       /\ \A id \in DOMAIN todos \cap DOMAIN todos' :
            todos'[id].created_at = todos[id].created_at
       /\ \A id \in DOMAIN todos' : todos'[id].created_at <= todos'[id].updated_at
      ]_vars

\* C1: an update leaves title, description, completed, priority and category
\* as they were when their key is absent from the body; due_date stays when
\* its key is absent, becomes null only when the key is present with null,
\* does so whenever the update succeeds with such a body, and takes the date
\* of a present, non-empty value when the update succeeds.
C1_UpdateKeepsAbsentFields ==
    [][Handled("update") /\ resp'.req.id \in DOMAIN todos =>
            LET data == resp'.req.data
                old == todos[resp'.req.id]
                new == todos'[resp'.req.id]
                due == Get(data, "due_date", Null)
            IN /\ \A k \in Keys \ {"due_date"} : ~Has(data, k) => new[k] = old[k]
               /\ ~Has(data, "due_date") => new.due_date = old.due_date
               /\ new.due_date = Null /\ old.due_date # Null =>
                    Has(data, "due_date") /\ due = Null
               /\ resp'.status = 200 /\ Has(data, "due_date") /\ due = Null =>
                    new.due_date = Null
               /\ resp'.status = 200 /\ due # Null /\ due[1].form # "empty" =>
                    new.due_date = Val(due[1].stamp)
               /\ resp'.status # 200 => new = old
      ]_vars

\* An update with only a null due_date has cleared the due_date of a row and
\* kept the title, description, priority and category earlier updates gave it.
C1_Witness ==
    /\ resp.op = "update" /\ resp.status = 200
    /\ NumKeys(resp.req.data, Keys) = 1 /\ resp.req.data.due_date = Given(Null)
    /\ resp.body.due_date = Null
    /\ resp.body.title = Val("B") /\ resp.body.description = Val("d")
    /\ resp.body.priority = Val("low") /\ resp.body.category = Val("work")
    /\ resp.body.completed = Val(TRUE)

\* C4: a bulk complete, delete or set_priority answers success; the rows whose
\* id is in todo_ids are completed, deleted, or given the priority of the
\* body, and keep their other fields; every other row is left as it was and no
\* row is added.
C4_BulkAppliesToListedRows ==
    [][Handled("bulk") /\ Has(resp'.req, "action") /\ Has(resp'.req, "todo_ids") =>
            LET action == resp'.req.action[1]
                ids == resp'.req.todo_ids[1]
                kept(old, new, field) ==
                    \A f \in DOMAIN old \ {field, "updated_at"} : new[f] = old[f]
            IN /\ resp'.status = 200 /\ resp'.body.success
               /\ DOMAIN todos' \subseteq DOMAIN todos
               /\ \A id \in DOMAIN todos \ ids :
                    id \in DOMAIN todos' /\ todos'[id] = todos[id]
               /\ \A id \in DOMAIN todos \cap ids :
                    CASE action = Val("delete") -> id \notin DOMAIN todos'
                      [] action = Val("complete") ->
                            /\ id \in DOMAIN todos'
                            /\ todos'[id].completed = Val(TRUE)
                            /\ kept(todos[id], todos'[id], "completed")
                      [] action = Val("set_priority") ->
                            /\ id \in DOMAIN todos'
                            /\ Has(resp'.req, "priority") =>
                                 todos'[id].priority = resp'.req.priority[1]
                            /\ kept(todos[id], todos'[id], "priority")
      ]_vars

\* A bulk set_priority to low with ids 1, 2 and 3, of which 1 and 2 have a
\* row, has succeeded and both rows have priority low.
C4_Witness ==
    /\ resp.op = "bulk" /\ resp.status = 200
    /\ resp.req.action = Given(Val("set_priority"))
    /\ resp.req.priority = Given(Val("low"))
    /\ resp.req.todo_ids = Given({1, 2, 3})
    /\ DOMAIN todos = {1, 2}
    /\ todos[1].priority = Val("low") /\ todos[2].priority = Val("low")

\* C8: a list sorted by priority is a permutation of the rows the store
\* returned in which every high row precedes every medium row, every medium
\* row every low row and every low row every row of another priority, and
\* rows of equal rank keep the order the store returned them in.
Precedes(p, q) ==
    \/ p = Val("high") /\ q # Val("high")
    \/ p = Val("medium") /\ q \notin {Val("high"), Val("medium")}
    \/ p = Val("low") /\ q \notin {Val("high"), Val("medium"), Val("low")}

C8_PrioritySortOrder ==
    resp.op = "list" /\ resp.req.sort = "priority" =>
        LET body == resp.body
            fetched == resp.fetched
            place(id) == CHOOSE i \in DOMAIN fetched : fetched[i] = id
        IN /\ Len(body) = Len(fetched)
           /\ {body[i].id : i \in DOMAIN body} = {fetched[i] : i \in DOMAIN fetched}
           /\ {fetched[i] : i \in DOMAIN fetched} =
                Selected(resp.req, resp.at)
           /\ \A i \in DOMAIN body : body[i].priority = todos[body[i].id].priority
           /\ \A i, j \in DOMAIN body :
                /\ Precedes(body[i].priority, body[j].priority) => i < j
                /\ (/\ i < j
                    /\ ~Precedes(body[i].priority, body[j].priority)
                    /\ ~Precedes(body[j].priority, body[i].priority))
                   => place(body[i].id) < place(body[j].id)

\* A priority sort has moved a high row from the end of what the store
\* returned to the front, ahead of two rows of other priorities that share a
\* rank and keep their order.
C8_Witness ==
    /\ resp.op = "list" /\ resp.req.sort = "priority" /\ Len(resp.body) = 3
    /\ todos[resp.fetched[3]].priority = Val("high")
    /\ todos[resp.fetched[1]].priority = Null
    /\ todos[resp.fetched[2]].priority = Val("urgent")
    /\ resp.body[1].id = resp.fetched[3]
    /\ resp.body[2].id = resp.fetched[1]
    /\ resp.body[3].id = resp.fetched[2]
    /\ resp.fetched[1] > resp.fetched[2]

====
